---- MODULE Spec2Model ----
(***************************************************************************)
(* AMAT (Android Memory Acquisition Tool): the file-extraction engine of   *)
(* src/main.py, class ForensicAcquisition.  The class                      *)
(* ProductionForensicAcquisition of src/amat_data_collection.py has the    *)
(* same _sanitize_path, _add_to_stats and _extract_file_production (they   *)
(* differ in log calls only), so one model covers both.                    *)
(*                                                                         *)
(* A device path is a sequence of one-character strings.  A local file is  *)
(* <<timestamp, dir, rel>>: the case directory case_<timestamp>, the base  *)
(* directory below it and the sanitized relative path.  File sizes are in  *)
(* bytes; the *_mb fields of AcquisitionStats hold bytes too, which is     *)
(* exact: st_size / 1024 / 1024 and the sums of such values are dyadic     *)
(* rationals that a double represents without rounding at these sizes.     *)
(***************************************************************************)
EXTENDS Integers, Sequences, FiniteSets, TLC

(***************************************************************************)
(* Config                                                                  *)
(***************************************************************************)
MAX_FILE_SIZE_MB == 500

MAX_PATH_LENGTH == 200

MaxComponentLength == 100

BytesPerMB == 1024 * 1024

MaxFileBytes == MAX_FILE_SIZE_MB * BytesPerMB

InlineCeilingMB == 5

InlineCeiling == InlineCeilingMB * BytesPerMB

(***************************************************************************)
(* Bounds of the model                                                     *)
(***************************************************************************)
\* the device answers that start an extraction or add a file, a process or an
\* application to the statistics, over all sessions
MaxWork == 2

MaxSessions == 2

(***************************************************************************)
(* Strings                                                                 *)
(***************************************************************************)
Alphabet ==
  << "/", ".", ":", "*", "?", "\"", "<", ">", "|", "\n", "\r", "\t", "_", "-",
     "0", "1", "2", "3", "4", "5", "6", "7", "8", "9",
     "a", "b", "c", "d", "e", "f", "g", "h", "i", "j", "k", "l", "m",
     "n", "o", "p", "q", "r", "s", "t", "u", "v", "w", "x", "y", "z" >>

CharCodes ==
  [ c \in { Alphabet[i] : i \in 1..Len(Alphabet) } |->
      CHOOSE i \in 1..Len(Alphabet) : Alphabet[i] = c ]

CharCode(c) == CharCodes[c]

HexDigits ==
  << "0", "1", "2", "3", "4", "5", "6", "7", "8", "9", "a", "b", "c", "d", "e", "f" >>

Prefix(s, n) == SubSeq(s, 1, IF n < Len(s) THEN n ELSE Len(s))

StartsWith(s, p) == Len(s) >= Len(p) /\ SubSeq(s, 1, Len(p)) = p

EndsWith(s, p) == Len(s) >= Len(p) /\ SubSeq(s, Len(s) - Len(p) + 1, Len(s)) = p

RECURSIVE LStripSlash(_)
LStripSlash(s) ==
  IF s # <<>> /\ Head(s) = "/" THEN LStripSlash(Tail(s)) ELSE s

\* os.path.basename: what follows the last '/'
RECURSIVE Basename(_)
Basename(s) ==
  IF \E i \in 1..Len(s) : s[i] = "/"
    THEN Basename(SubSeq(s, (CHOOSE i \in 1..Len(s) : s[i] = "/") + 1, Len(s)))
    ELSE s

\* str.split('/'): the components between the separators, empty ones included
RECURSIVE SplitSlash(_)
SplitSlash(s) ==
  IF \E i \in 1..Len(s) : s[i] = "/"
    THEN LET i == CHOOSE j \in 1..Len(s) : s[j] = "/" /\ \A k \in 1..(j - 1) : s[k] # "/"
         IN  <<SubSeq(s, 1, i - 1)>> \o SplitSlash(SubSeq(s, i + 1, Len(s)))
    ELSE <<s>>

RECURSIVE JoinSlash(_)
JoinSlash(parts) ==
  IF parts = <<>> THEN <<>>
  ELSE IF Len(parts) = 1 THEN parts[1]
  ELSE parts[1] \o <<"/">> \o JoinSlash(Tail(parts))

(***************************************************************************)
(* hashlib.md5(...).hexdigest()[:8].  MD5 itself is out of reach of the    *)
(* checker; Md5Hex8 is a deterministic digest of the whole string with 32  *)
(* bits rendered as 8 hexadecimal characters (two 16-bit polynomial sums). *)
(***************************************************************************)
\* a * b modulo 2^16, in steps that stay within 32-bit integers
MulMod(a, b) == (a * (b % 256) + ((a * (b \div 256)) % 65536) * 256) % 65536

RECURSIVE PowMod(_, _)
PowMod(b, n) ==
  IF n = 0 THEN 1
  ELSE LET h == PowMod(b, n \div 2)
       IN  IF n % 2 = 0 THEN MulMod(h, h) ELSE MulMod(MulMod(h, h), b)

\* the sum of CharCode(s[i]) * mult^(hi - i) over i in lo..hi, modulo 2^16
RECURSIVE PolySum(_, _, _, _)
PolySum(s, lo, hi, mult) ==
  IF lo > hi THEN 0
  ELSE IF lo = hi THEN CharCode(s[lo])
  ELSE LET half == (lo + hi) \div 2
       IN  (MulMod(PolySum(s, lo, half, mult), PowMod(mult, hi - half))
              + PolySum(s, half + 1, hi, mult)) % 65536

\* acc, then every character c in turn: acc := (acc * mult + CharCode(c)) mod 2^16
PolyHash(s, mult, acc) ==
  (MulMod(acc, PowMod(mult, Len(s))) + PolySum(s, 1, Len(s), mult)) % 65536

Hex4(n) ==
  << HexDigits[((n \div 4096) % 16) + 1], HexDigits[((n \div 256) % 16) + 1],
     HexDigits[((n \div 16) % 16) + 1], HexDigits[(n % 16) + 1] >>

Md5Hex8(s) == Hex4(PolyHash(s, 31, 7)) \o Hex4(PolyHash(s, 17, 3))

(***************************************************************************)
(* _sanitize_path                                                          *)
(***************************************************************************)
invalid_chars == {":", "*", "?", "\"", "<", ">", "|", "\n", "\r", "\t"}

\* faulty variant: a leading dot is kept
SanitizePart_KeepDot(part) ==
  LET replaced == [i \in 1..Len(part) |->
                     IF part[i] \in invalid_chars THEN "_" ELSE part[i]]
  IN  IF Len(replaced) > MaxComponentLength
        THEN SubSeq(replaced, 1, MaxComponentLength) ELSE replaced

SanitizePart(part) ==
  LET replaced == [i \in 1..Len(part) |->
                     IF part[i] \in invalid_chars THEN "_" ELSE part[i]]
      undotted == IF replaced # <<>> /\ replaced[1] = "."
                    THEN <<"_">> \o Tail(replaced) ELSE replaced
  IN  IF Len(undotted) > MaxComponentLength
        THEN SubSeq(undotted, 1, MaxComponentLength) ELSE undotted

\* lines 162-182: '/'.join(sanitized_parts)
JoinedParts(path) ==
  LET parts == SelectSeq(SplitSlash(path), LAMBDA p : p # <<>>)
      sanitized_parts == [i \in 1..Len(parts) |-> SanitizePart(parts[i])]
  IN  JoinSlash(sanitized_parts)

\* faulty variant: the total-length rule is missing
_sanitize_path_Unbounded(path) == JoinedParts(path)

\* faulty variant: the total-length rule keeps one character too many
_sanitize_path_OffByOne(path) ==
  LET result == JoinedParts(path)
  IN  IF Len(result) > MAX_PATH_LENGTH
        THEN Prefix(result, MAX_PATH_LENGTH - 9) \o <<"_">> \o Md5Hex8(result)
        ELSE result

\* faulty variant: the hash is taken over the characters that are kept
_sanitize_path_PrefixHash(path) ==
  LET result == JoinedParts(path)
  IN  IF Len(result) > MAX_PATH_LENGTH
        THEN Prefix(result, MAX_PATH_LENGTH - 10) \o <<"_">>
               \o Md5Hex8(Prefix(result, MAX_PATH_LENGTH - 10))
        ELSE result

_sanitize_path(path) ==
  LET result == JoinedParts(path)
  IN  IF Len(result) > MAX_PATH_LENGTH
        THEN Prefix(result, MAX_PATH_LENGTH - 10) \o <<"_">> \o Md5Hex8(result)
        ELSE result

(***************************************************************************)
(* Device paths the device reports (the output of the find commands) and   *)
(* the fixed list system_dbs of acquire_system_data                        *)
(***************************************************************************)
PathA == <<"/", "s", "d", "/", "a", ".", "d", "b">>

PathXA == <<"/", "s", "d", "/", "x", "/", "a", ".", "d", "b">>

PathPrivate == <<"/", "d", "a", "t", "a", "/", "d", "a", "t", "a", "/", "p", "/", ".", "c", ":", "d">>

FoundPaths == {PathA, PathXA, PathPrivate}

system_dbs ==
  { <<"/", "d", "a", "t", "a", "/", "s", "y", "s", "t", "e", "m", "/",
      "p", "a", "c", "k", "a", "g", "e", "s", ".", "x", "m", "l">> }

DevicePaths == FoundPaths \cup system_dbs

PrivatePrefixes ==
  { <<"/", "d", "a", "t", "a", "/", "d", "a", "t", "a", "/">>,
    <<"/", "d", "a", "t", "a", "/", "u", "s", "e", "r", "/">> }

DatabaseSuffixes ==
  { <<".", "d", "b">>, <<".", "s", "q", "l", "i", "t", "e">>,
    <<".", "d", "b", "-", "w", "a", "l">>, <<".", "d", "b", "-", "s", "h", "m">> }

\* remote_path.startswith('/data/data/') or remote_path.startswith('/data/user/')
IsPrivate(remote_path) == \E p \in PrivatePrefixes : StartsWith(remote_path, p)

\* remote_path.endswith(('.db', '.sqlite', '.db-wal', '.db-shm'))
IsDatabase(remote_path) == \E x \in DatabaseSuffixes : EndsWith(remote_path, x)

(***************************************************************************)
(* AcquisitionStats                                                        *)
(***************************************************************************)
Categories == {"volatile", "app_data", "media", "documents", "downloads", "system"}

ByteFields ==
  {"volatile_mb", "app_data_mb", "media_mb", "documents_mb", "downloads_mb",
   "system_mb", "total_mb"}

CounterFields ==
  {"processes_scanned", "memory_maps_acquired", "apps_processed",
   "databases_acquired", "photos_acquired", "videos_acquired", "audio_acquired",
   "documents_acquired", "total_files", "failed_files", "path_errors",
   "extraction_errors"}

StatFields == ByteFields \cup CounterFields

AcquisitionStats == [f \in StatFields |-> 0]

CategoryField(category) ==
  CASE category = "volatile" -> "volatile_mb"
    [] category = "app_data" -> "app_data_mb"
    [] category = "media" -> "media_mb"
    [] category = "documents" -> "documents_mb"
    [] category = "downloads" -> "downloads_mb"
    [] category = "system" -> "system_mb"
    [] OTHER -> "none"

Bump(st, field, n) == [st EXCEPT ![field] = @ + n]

\* faulty variant: the grand total is not updated
_add_to_stats_NoTotal(st, category, size_mb) ==
  LET byCategory == IF CategoryField(category) \in ByteFields
                      THEN Bump(st, CategoryField(category), size_mb) ELSE st
  IN  Bump(byCategory, "total_files", 1)

\* faulty variant: the sizes are subtracted
_add_to_stats_Minus(st, category, size_mb) ==
  LET byCategory == IF CategoryField(category) \in ByteFields
                      THEN Bump(st, CategoryField(category), 0 - size_mb) ELSE st
  IN  Bump(Bump(byCategory, "total_mb", 0 - size_mb), "total_files", 1)

\* faulty variant: the total of the category is not updated
_add_to_stats_NoCategory(st, category, size_mb) ==
  Bump(Bump(st, "total_mb", size_mb), "total_files", 1)

\* _add_to_stats(category, size_mb) applied to the aggregate st
_add_to_stats(st, category, size_mb) ==
  LET byCategory == IF CategoryField(category) \in ByteFields
                      THEN Bump(st, CategoryField(category), size_mb) ELSE st
  IN  Bump(Bump(byCategory, "total_mb", size_mb), "total_files", 1)

(***************************************************************************)
(* State                                                                   *)
(***************************************************************************)
VARIABLES
  timestamp,        \* self.timestamp: names the case directory of the session
  stats,            \* self.stats
  extracted_files,  \* self.extracted_files
  has_root,         \* self.has_root
  temp_counter,     \* self.temp_counter
  staged,           \* history: the staging paths of the staged copies of this session
  disk,             \* the workstation's files below OUTPUT_DIR: local file -> size
  phase,            \* position of run_acquisition
  pc,               \* position of the running _extract_file_production call
  frame,            \* its arguments and the call site that awaits its result
  success,          \* its local variable success
  cmds,             \* the commands it has passed to _adb since its top-level entry
  result,           \* the value it returned
  outcome,          \* the return statement it left through
  session,          \* history: sessions constructed so far
  work,             \* history: device answers counted against MaxWork
  called,           \* history: device paths of the completed calls of this session
  topStats,         \* history: stats at the entry of the top-level call
  entryStats,       \* history: stats at the entry of the running invocation
  faults,           \* history: faults raised inside the top-level call
  codes,            \* history: what _adb returned in the step just taken: the status
                    \* of a transfer and of the delete of a staged copy, the answer
                    \* to a size query
  written,          \* history: <<session, device path, local file>> of every success
  reported,         \* history: the statistics generate_reports wrote in this session,
                    \* and what run_acquisition called it after
  memo,             \* the values of the string functions at the device paths: they
                    \* are computed once, in Init, and looked up by the steps
  inputs,           \* the strings _sanitize_path is called with on its own
  sanitized         \* what it returned for them

sanVars == << inputs, sanitized >>

vars ==
  << timestamp, stats, extracted_files, has_root, temp_counter, staged, disk, phase, pc,
     frame, success, cmds, result, outcome, session, work, called, topStats,
     entryStats, faults, codes, written, reported, memo, sanVars >>

sessionVars == << timestamp, session, reported, memo, sanVars >>

objectVars == << extracted_files, has_root, temp_counter, staged >>

callVars ==
  << pc, frame, success, cmds, result, outcome, called, topStats, entryStats, faults,
     codes >>

(***************************************************************************)
(* The workstation's file system                                           *)
(***************************************************************************)
Exists(d, local_file) == local_file \in DOMAIN d

\* local_file.stat().st_size of an existing file
StSize(d, local_file) == d[local_file]

\* local_file.exists() and local_file.stat().st_size > 0
ExistsNonEmpty(d, local_file) == Exists(d, local_file) /\ StSize(d, local_file) > 0

WriteFile(d, local_file, size) ==
  [f \in DOMAIN d \cup {local_file} |-> IF f = local_file THEN size ELSE d[f]]

\* local_file.unlink()
Unlink(d, local_file) == [f \in DOMAIN d \ {local_file} |-> d[f]]

(***************************************************************************)
(* The call sites of _extract_file_production, by phase of run_acquisition *)
(***************************************************************************)
\* the position of run_acquisition: the method it is in or is about to call.  An
\* acquire_* method whose find commands report nothing changes no state and is
\* passed over by the step that moves to a later position.
Phases ==
  << "device_info", "root", "volatile", "app_data", "media", "documents",
     "downloads", "whatsapp", "browser", "system", "done" >>

PhaseIndex(p) == CHOOSE i \in 1..Len(Phases) : Phases[i] = p

NextPhase(p) == Phases[PhaseIndex(p) + 1]

\* the acquire_* methods between acquire_volatile_memory and acquire_system_data
Sweeping(p) == PhaseIndex("app_data") <= PhaseIndex(p) /\ PhaseIndex(p) <= PhaseIndex("browser")

\* position p is not later than position q
NotAfter(p, q) == PhaseIndex(p) <= PhaseIndex(q)

NoFrame ==
  [ remote_path |-> <<>>, local_base_dir |-> "", category |-> "", flatten |-> FALSE,
    counter |-> "", retried |-> FALSE, local_file |-> <<>> ]

\* paths: the device paths the find command of the site reports in this model
CallSites ==
  { [phase |-> "app_data", local_base_dir |-> "02_APP_DATA/p", category |-> "app_data",
     flatten |-> FALSE, counter |-> "", root_only |-> FALSE, paths |-> {PathPrivate}],
    [phase |-> "media", local_base_dir |-> "04_MEDIA/photos", category |-> "media",
     flatten |-> TRUE, counter |-> "photos_acquired", root_only |-> FALSE,
     paths |-> {PathA, PathXA}],
    [phase |-> "media", local_base_dir |-> "04_MEDIA/videos", category |-> "media",
     flatten |-> TRUE, counter |-> "videos_acquired", root_only |-> FALSE,
     paths |-> {PathXA}],
    [phase |-> "media", local_base_dir |-> "04_MEDIA/audio", category |-> "media",
     flatten |-> TRUE, counter |-> "audio_acquired", root_only |-> FALSE,
     paths |-> {PathA}],
    [phase |-> "documents", local_base_dir |-> "05_DOCUMENTS", category |-> "documents",
     flatten |-> TRUE, counter |-> "documents_acquired", root_only |-> FALSE,
     paths |-> {PathA}],
    [phase |-> "downloads", local_base_dir |-> "06_DOWNLOADS", category |-> "downloads",
     flatten |-> TRUE, counter |-> "", root_only |-> FALSE, paths |-> {PathA}],
    [phase |-> "whatsapp", local_base_dir |-> "07_WHATSAPP", category |-> "app_data",
     flatten |-> FALSE, counter |-> "", root_only |-> FALSE,
     paths |-> {PathPrivate, PathXA}],
    [phase |-> "browser", local_base_dir |-> "08_BROWSER/Chrome", category |-> "app_data",
     flatten |-> FALSE, counter |-> "", root_only |-> TRUE, paths |-> {PathPrivate}],
    [phase |-> "system", local_base_dir |-> "09_SYSTEM", category |-> "system",
     flatten |-> TRUE, counter |-> "", root_only |-> TRUE, paths |-> system_dbs] }

\* lines 369-370, 375 and 398 at every device path of the model: safe_filename,
\* rel_path and the digest in the name of the staged copy
Memo ==
  [ p \in DevicePaths |->
      [ safe_filename |-> _sanitize_path(Basename(p)),
        rel_path |-> _sanitize_path(LStripSlash(p)),
        digest |-> Md5Hex8(Basename(p)) ] ]

\* lines 369-376: the local file an invocation with the arguments of fr computes
LocalFile(ts, fr) ==
  << ts, fr.local_base_dir,
     IF fr.flatten THEN memo[fr.remote_path].safe_filename
     ELSE memo[fr.remote_path].rel_path >>

\* the local variable local_file of the running invocation
local_file == frame.local_file

(***************************************************************************)
(* ForensicAcquisition.__init__: the state of a fresh session              *)
(***************************************************************************)
EngineInit ==
  /\ timestamp = 1
  /\ stats = AcquisitionStats
  /\ extracted_files = {}
  /\ has_root = FALSE
  /\ temp_counter = 0
  /\ staged = << >>
  /\ disk = << >>
  /\ phase = "device_info"
  /\ pc = "idle"
  /\ frame = NoFrame
  /\ success = FALSE
  /\ cmds = << >>
  /\ result = FALSE
  /\ outcome = "none"
  /\ session = 1
  /\ work = 0
  /\ called = {}
  /\ topStats = AcquisitionStats
  /\ entryStats = AcquisitionStats
  /\ faults = 0
  /\ codes = << >>
  /\ written = {}
  /\ reported = << >>
  /\ memo = Memo

Init ==
  /\ EngineInit
  /\ inputs = << >>
  /\ sanitized = << >>

(***************************************************************************)
(* The device's answers                                                    *)
(***************************************************************************)
\* status codes of _adb: the command's return code, or -1 on a timeout or an error
PullCodes == {0, 1, -1}

FileSizes == {0, 1, MaxFileBytes + 1}

\* what a pull leaves at the local file: nothing, or a file of some size
PullEffects == {<< >>} \cup {<<n>> : n \in FileSizes}

\* the answers to a pull: a status and what it left; a pull that reports 0 may have
\* left anything, a failed one nothing, and one that timed out nothing or a part
PullAnswers ==
  {<<0, effect>> : effect \in PullEffects} \cup {<<1, << >> >>, <<-1, << >> >>, <<-1, <<1>> >>}

ApplyPull(d, lf, effect) == IF effect = << >> THEN d ELSE WriteFile(d, lf, effect[1])

\* stdout of stat -c %s: text int() rejects, or a number
StatAnswers == {<< >>} \cup {<<n>> : n \in {0, 1, InlineCeiling - 1, InlineCeiling}}

\* len(stdout) of cat
CatLengths == {0, 1}

\* sizes of the text files the acquisition phases write themselves
TextSizes == {1}

(***************************************************************************)
(* _adb and _shell: the command handed to the device bridge                *)
(***************************************************************************)
Pull(src) == [op |-> "pull", src |-> src, su |-> FALSE]

\* _shell(cmd, as_root): su -c is used only when as_root and self.has_root
Shell(op, src, as_root) == [op |-> op, src |-> src, su |-> as_root /\ has_root]

(***************************************************************************)
(* run_acquisition: the phases around the extraction calls                 *)
(***************************************************************************)
RECURSIVE AddFiles(_, _, _, _)
AddFiles(st, category, k, size) ==
  IF k = 0 THEN st ELSE AddFiles(_add_to_stats(st, category, size), category, k - 1, size)

AcquireDeviceInfo ==
  /\ phase = "device_info"
  /\ phase' = NextPhase(phase)
  /\ UNCHANGED << stats, disk, written, work >>
  /\ UNCHANGED sessionVars
  /\ UNCHANGED objectVars
  /\ UNCHANGED callVars

check_root_access ==
  /\ phase = "root"
  /\ \E uid0 \in BOOLEAN : has_root' = uid0
  /\ phase' = NextPhase(phase)
  /\ UNCHANGED << stats, disk, written, work, extracted_files, temp_counter, staged >>
  /\ UNCHANGED sessionVars
  /\ UNCHANGED callVars

acquire_volatile_memory ==
  /\ phase = "volatile"
  /\ \E psOk \in BOOLEAN, n \in 0..(MaxWork - work), maps \in 0..(MaxWork - work),
        memOk \in BOOLEAN, size \in TextSizes :
       /\ maps <= n
       /\ ~psOk => n = 0
       /\ work' = work + n + (IF psOk THEN 1 ELSE 0) + (IF memOk THEN 1 ELSE 0)
       /\ work' <= MaxWork
       /\ LET scanned == IF psOk
                           THEN _add_to_stats([stats EXCEPT !.processes_scanned = n],
                                              "volatile", size)
                           ELSE stats
              mapped == Bump(AddFiles(scanned, "volatile", maps, size),
                             "memory_maps_acquired", maps)
          IN  stats' = IF memOk THEN _add_to_stats(mapped, "volatile", size) ELSE mapped
  /\ phase' = NextPhase(phase)
  /\ UNCHANGED << disk, written >>
  /\ UNCHANGED sessionVars
  /\ UNCHANGED objectVars
  /\ UNCHANGED callVars

\* acquire_app_data, after _acquire_app_directory(package) has returned
AppProcessed ==
  /\ phase = "app_data"
  /\ pc = "idle"
  /\ work < MaxWork
  /\ work' = work + 1
  /\ stats' = Bump(stats, "apps_processed", 1)
  /\ UNCHANGED << disk, written, phase >>
  /\ UNCHANGED sessionVars
  /\ UNCHANGED objectVars
  /\ UNCHANGED callVars

\* acquire_system_data: the log, package and settings files it writes
AcquireSystemLogs ==
  /\ Sweeping(phase)
  /\ pc = "idle"
  /\ \E k \in 0..(MaxWork - work), size \in TextSizes :
       /\ stats' = AddFiles(stats, "system", k, size)
       /\ work' = work + k
  /\ phase' = "system"
  /\ UNCHANGED << disk, written >>
  /\ UNCHANGED sessionVars
  /\ UNCHANGED objectVars
  /\ UNCHANGED callVars

\* the end of acquire_system_data, then generate_reports
generate_reports ==
  /\ phase = "system"
  /\ pc = "idle"
  /\ phase' = "done"
  /\ reported' = << [stats |-> stats, after |-> "sweep"] >>
  /\ UNCHANGED << stats, disk, written, work, timestamp, session, memo, sanVars >>
  /\ UNCHANGED objectVars
  /\ UNCHANGED callVars

\* faulty variant: the handlers return without calling generate_reports
Interrupted_NoReport ==
  /\ phase # "done"
  /\ phase' = "done"
  /\ pc' = "idle"
  /\ frame' = NoFrame
  /\ success' = FALSE
  /\ cmds' = << >>
  /\ result' = FALSE
  /\ outcome' = "none"
  /\ faults' = 0
  /\ codes' = << >>
  /\ topStats' = AcquisitionStats
  /\ entryStats' = AcquisitionStats
  /\ UNCHANGED << stats, disk, written, work, timestamp, session, called, reported, memo, sanVars >>
  /\ UNCHANGED objectVars

\* lines 972-981: KeyboardInterrupt, or an Exception that an acquire_* method does
\* not catch, ends the sweep wherever it is; the handler calls generate_reports
Interrupted ==
  /\ phase # "done"
  /\ phase' = "done"
  /\ reported' = << [stats |-> stats, after |-> "interrupt"] >>
  /\ pc' = "idle"
  /\ frame' = NoFrame
  /\ success' = FALSE
  /\ cmds' = << >>
  /\ result' = FALSE
  /\ outcome' = "none"
  /\ faults' = 0
  /\ codes' = << >>
  /\ topStats' = AcquisitionStats
  /\ entryStats' = AcquisitionStats
  /\ UNCHANGED << stats, disk, written, work, timestamp, session, called, memo, sanVars >>
  /\ UNCHANGED objectVars

\* the tool is started again: ForensicAcquisition.__init__ builds a new session,
\* whose timestamp has a resolution of one second
NewSession ==
  /\ phase = "done"
  /\ session < MaxSessions
  /\ session' = session + 1
  /\ \E t \in {timestamp, timestamp + 1} : timestamp' = t
  /\ stats' = AcquisitionStats
  /\ extracted_files' = {}
  /\ has_root' = FALSE
  /\ temp_counter' = 0
  /\ staged' = << >>
  /\ phase' = "device_info"
  /\ pc' = "idle"
  /\ frame' = NoFrame
  /\ success' = FALSE
  /\ cmds' = << >>
  /\ result' = FALSE
  /\ outcome' = "none"
  /\ called' = {}
  /\ topStats' = AcquisitionStats
  /\ entryStats' = AcquisitionStats
  /\ faults' = 0
  /\ codes' = << >>
  /\ reported' = << >>
  /\ UNCHANGED << disk, written, work, memo, sanVars >>

(***************************************************************************)
(* _extract_file_production, one step per check, strategy and return       *)
(***************************************************************************)
\* what no step of a running call changes
heldVars == << timestamp, session, phase, has_root, work, called, topStats, reported, memo, sanVars >>

Return(value, through) ==
  /\ pc' = "ret"
  /\ result' = value
  /\ outcome' = through

\* a call site of the current phase calls
\* _extract_file_production(remote_path, local_base_dir, category, flatten)
StartExtract ==
  /\ pc = "idle"
  /\ work < MaxWork
  /\ \E site \in CallSites, remote_path \in DevicePaths :
       /\ IF site.phase = "system" THEN phase = "system"
            ELSE Sweeping(phase) /\ NotAfter(phase, site.phase)
       /\ phase' = site.phase
       /\ site.root_only => has_root
       /\ remote_path \in site.paths
       /\ LET fr == [ remote_path |-> remote_path, local_base_dir |-> site.local_base_dir,
                      category |-> site.category, flatten |-> site.flatten,
                      counter |-> site.counter, retried |-> FALSE, local_file |-> <<>> ]
          IN  frame' = [fr EXCEPT !.local_file = LocalFile(timestamp, fr)]
  /\ pc' = "entry"
  /\ work' = work + 1
  /\ success' = FALSE
  /\ cmds' = << >>
  /\ outcome' = "none"
  /\ topStats' = stats
  /\ entryStats' = stats
  /\ faults' = 0
  /\ codes' = << >>
  /\ UNCHANGED << timestamp, session, has_root, called, result, stats,
                  extracted_files, temp_counter, staged, disk, written, reported, memo, sanVars >>

\* faulty variant: the extracted-path set is never consulted
AlreadyExtracted_Never(fr) == FALSE

\* lines 366-367: if remote_path in self.extracted_files: return False
AlreadyExtracted(fr) == fr.remote_path \in extracted_files

ExtractDuplicate ==
  /\ pc = "entry"
  /\ AlreadyExtracted(frame)
  /\ Return(FALSE, "duplicate")
  /\ UNCHANGED << stats, extracted_files, temp_counter, staged, disk, frame, success, cmds,
                  entryStats, faults, written >>
  /\ codes' = << >>
  /\ UNCHANGED heldVars

\* faulty variant: a file already at the target is not looked for
AlreadyOnDisk_Never(d, lf) == FALSE

\* lines 378-379: if local_file.exists() and local_file.stat().st_size > 0: return False
AlreadyOnDisk(d, lf) == ExistsNonEmpty(d, lf)

ExtractOnDisk ==
  /\ pc = "entry"
  /\ ~AlreadyExtracted(frame)
  /\ AlreadyOnDisk(disk, local_file)
  /\ Return(FALSE, "on_disk")
  /\ UNCHANGED << stats, extracted_files, temp_counter, staged, disk, frame, success, cmds,
                  entryStats, faults, written >>
  /\ codes' = << >>
  /\ UNCHANGED heldVars

\* lines 381-382, 389: the parent directories are there; success = False
ExtractMkdirOk ==
  /\ pc = "entry"
  /\ ~AlreadyExtracted(frame)
  /\ ~AlreadyOnDisk(disk, local_file)
  /\ pc' = "direct"
  /\ success' = FALSE
  /\ UNCHANGED << stats, extracted_files, temp_counter, staged, disk, frame, cmds, result,
                  outcome, entryStats, faults, written >>
  /\ codes' = << >>
  /\ UNCHANGED heldVars

\* faulty variant: the retry is made with flatten as it was
ExtractMkdirRetry_Unflattened ==
  /\ pc = "entry"
  /\ ~AlreadyExtracted(frame)
  /\ ~AlreadyOnDisk(disk, local_file)
  /\ ~frame.flatten
  /\ stats' = Bump(stats, "path_errors", 1)
  /\ frame' = [frame EXCEPT !.retried = TRUE]
  /\ entryStats' = stats'
  /\ pc' = "entry"
  /\ UNCHANGED << extracted_files, temp_counter, staged, disk, success, cmds, result,
                  outcome, faults, written >>
  /\ codes' = << >>
  /\ UNCHANGED heldVars

\* lines 383-386: mkdir raised OSError in a call with flatten false; the method
\* calls itself with flatten=True and returns what that invocation returns
ExtractMkdirRetry ==
  /\ pc = "entry"
  /\ ~AlreadyExtracted(frame)
  /\ ~AlreadyOnDisk(disk, local_file)
  /\ ~frame.flatten
  /\ stats' = Bump(stats, "path_errors", 1)
  /\ LET fr == [frame EXCEPT !.flatten = TRUE, !.retried = TRUE]
     IN  frame' = [fr EXCEPT !.local_file = LocalFile(timestamp, fr)]
  /\ entryStats' = stats'
  /\ pc' = "entry"
  /\ UNCHANGED << extracted_files, temp_counter, staged, disk, success, cmds, result,
                  outcome, faults, written >>
  /\ codes' = << >>
  /\ UNCHANGED heldVars

\* lines 383-387: mkdir raised OSError in a call with flatten true
ExtractMkdirFail ==
  /\ pc = "entry"
  /\ ~AlreadyExtracted(frame)
  /\ ~AlreadyOnDisk(disk, local_file)
  /\ frame.flatten
  /\ stats' = Bump(stats, "path_errors", 1)
  /\ Return(FALSE, "path_error")
  /\ UNCHANGED << extracted_files, temp_counter, staged, disk, frame, success, cmds,
                  entryStats, faults, written >>
  /\ codes' = << >>
  /\ UNCHANGED heldVars

\* faulty variant: the handler counts a failed file as well
HandleFault_AlsoFailed ==
  /\ stats' = Bump(Bump(stats, "extraction_errors", 1), "failed_files", 1)
  /\ faults' = faults + 1
  /\ Return(FALSE, "fault")

\* lines 448-450: except Exception: extraction_errors += 1; return False
HandleFault ==
  /\ stats' = Bump(stats, "extraction_errors", 1)
  /\ faults' = faults + 1
  /\ Return(FALSE, "fault")

\* faulty variant: the direct pull is tried for every path
DirectApplies_Always(remote_path) == TRUE

\* line 391: the direct pull is skipped for the private application storage
DirectApplies(remote_path) == ~IsPrivate(remote_path)

DirectSkip ==
  /\ pc = "direct"
  /\ ~DirectApplies(frame.remote_path)
  /\ pc' = "staged"
  /\ UNCHANGED << stats, extracted_files, temp_counter, staged, disk, frame, success, cmds,
                  result, outcome, entryStats, faults, written >>
  /\ codes' = << >>
  /\ UNCHANGED heldVars

\* faulty variant: the status alone decides
PullSucceeded_StatusOnly(code, d, lf) == code = 0

\* line 393 and 408: code == 0 and local_file.exists() and local_file.stat().st_size > 0
PullSucceeded(code, d, lf) == code = 0 /\ ExistsNonEmpty(d, lf)

\* lines 392-394: adb pull remote_path local_file
DirectPull ==
  /\ pc = "direct"
  /\ DirectApplies(frame.remote_path)
  /\ cmds' = Append(cmds, Pull(frame.remote_path))
  /\ \E answer \in PullAnswers :
       /\ disk' = ApplyPull(disk, local_file, answer[2])
       /\ success' = PullSucceeded(answer[1], disk', local_file)
       /\ codes' = << << "pull", answer[1] >> >>
  /\ pc' = "staged"
  /\ UNCHANGED << stats, extracted_files, temp_counter, staged, frame, result, outcome,
                  entryStats, faults, written >>
  /\ UNCHANGED heldVars

\* line 393: the pull reported 0, and looking at the local file raised OSError
DirectPullFault ==
  /\ pc = "direct"
  /\ DirectApplies(frame.remote_path)
  /\ cmds' = Append(cmds, Pull(frame.remote_path))
  /\ \E answer \in PullAnswers :
       /\ answer[1] = 0
       /\ answer[2] # << >>
       /\ disk' = ApplyPull(disk, local_file, answer[2])
       /\ codes' = << << "pull", answer[1] >> >>
  /\ HandleFault
  /\ UNCHANGED << extracted_files, temp_counter, staged, frame, success, entryStats, written >>
  /\ UNCHANGED heldVars

\* faulty variant: the staged copy runs although the direct pull has succeeded
StagedApplies_IgnoringSuccess == has_root

\* line 396: if not success and self.has_root
StagedApplies == ~success /\ has_root

StagedSkip ==
  /\ pc = "staged"
  /\ ~StagedApplies
  /\ pc' = "inline"
  /\ UNCHANGED << stats, extracted_files, temp_counter, staged, disk, frame, success, cmds,
                  result, outcome, entryStats, faults, written >>
  /\ codes' = << >>
  /\ UNCHANGED heldVars

\* str(n) of a natural number
RECURSIVE Digits(_)
Digits(n) ==
  IF n < 10 THEN << HexDigits[n + 1] >>
  ELSE Digits(n \div 10) \o << HexDigits[(n % 10) + 1] >>

StagingDir ==
  << "/", "s", "d", "c", "a", "r", "d", "/", "d", "o", "w", "n", "l", "o", "a", "d", "/" >>

\* faulty variant: the name of the staged copy has no counter
TempPath_NoCounter(counter, remote_path) ==
  StagingDir \o << "a", "m", "a", "t", "_" >>
    \o memo[remote_path].digest \o << ".", "t", "m", "p" >>

\* lines 398-399: /sdcard/Download/amat_<temp_counter>_<md5(filename)[:8]>.tmp
\* (the alphabet of the model has no capitals: Download is written download)
TempPath(counter, remote_path) ==
  StagingDir \o << "a", "m", "a", "t", "_" >> \o Digits(counter) \o << "_" >>
    \o memo[remote_path].digest \o << ".", "t", "m", "p" >>

\* faulty variant: the staged copy is deleted before it is pulled
StagedCommands_DeleteFirst(temp_path, remote_path) ==
  << Shell("cp", remote_path, TRUE), Shell("chmod", temp_path, TRUE),
     Shell("rm", temp_path, TRUE), Pull(temp_path) >>

\* lines 401-406: cp and chmod as root, pull the staged copy, rm it
StagedCommands(temp_path, remote_path) ==
  << Shell("cp", remote_path, TRUE), Shell("chmod", temp_path, TRUE),
     Pull(temp_path), Shell("rm", temp_path, TRUE) >>

\* lines 397-409
StagedCopy ==
  /\ pc = "staged"
  /\ StagedApplies
  /\ temp_counter' = temp_counter + 1
  /\ staged' = Append(staged, TempPath(temp_counter', frame.remote_path))
  /\ cmds' = cmds \o StagedCommands(TempPath(temp_counter', frame.remote_path),
                                    frame.remote_path)
  /\ \E answer \in PullAnswers, rm_code \in PullCodes :
       /\ disk' = ApplyPull(disk, local_file, answer[2])
       /\ success' = PullSucceeded(answer[1], disk', local_file)
       /\ codes' = << << "pull", answer[1] >>, << "rm", rm_code >> >>
  /\ pc' = "inline"
  /\ UNCHANGED << stats, extracted_files, frame, result, outcome, entryStats, faults,
                  written >>
  /\ UNCHANGED heldVars

\* line 408: the pull reported 0, and looking at the local file raised OSError
StagedCopyFault ==
  /\ pc = "staged"
  /\ StagedApplies
  /\ temp_counter' = temp_counter + 1
  /\ staged' = Append(staged, TempPath(temp_counter', frame.remote_path))
  /\ cmds' = cmds \o StagedCommands(TempPath(temp_counter', frame.remote_path),
                                    frame.remote_path)
  /\ \E answer \in PullAnswers, rm_code \in PullCodes :
       /\ answer[1] = 0
       /\ answer[2] # << >>
       /\ disk' = ApplyPull(disk, local_file, answer[2])
       /\ codes' = << << "pull", answer[1] >>, << "rm", rm_code >> >>
  /\ HandleFault
  /\ UNCHANGED << extracted_files, frame, success, entryStats, written >>
  /\ UNCHANGED heldVars

\* line 411: if not success
InlineSkip ==
  /\ pc = "inline"
  /\ success
  /\ pc' = "verify"
  /\ UNCHANGED << stats, extracted_files, temp_counter, staged, disk, frame, success, cmds,
                  result, outcome, entryStats, faults, written >>
  /\ codes' = << >>
  /\ UNCHANGED heldVars

\* faulty variant: the ceiling of the inline read is not applied
InlineApplies_NoCeiling(size_out) == size_out # << >> /\ size_out[1] > 0

\* lines 414-415: file_size = int(size_out.strip()); 0 < file_size < 5 * 1024 * 1024
InlineApplies(size_out) ==
  size_out # << >> /\ size_out[1] > 0 /\ size_out[1] < InlineCeiling

StatCommand(remote_path) == Shell("stat", remote_path, has_root)

CatCommand(remote_path) == Shell("cat", remote_path, has_root)

\* lines 412-415, 423-424: the size answer is no number (int() raises, except: pass)
\* or is out of range: nothing is read
InlineNoRead ==
  /\ pc = "inline"
  /\ ~success
  /\ \E size_out \in StatAnswers :
       /\ ~InlineApplies(size_out)
       /\ codes' = << << "stat", size_out >> >>
  /\ cmds' = Append(cmds, StatCommand(frame.remote_path))
  /\ pc' = "verify"
  /\ UNCHANGED << stats, extracted_files, temp_counter, staged, disk, frame, success, result,
                  outcome, entryStats, faults, written >>
  /\ UNCHANGED heldVars

\* lines 416-422: cat the file; its text, when there is some, is written to local_file
InlineCat ==
  /\ pc = "inline"
  /\ ~success
  /\ \E size_out \in StatAnswers :
       /\ InlineApplies(size_out)
       /\ codes' = << << "stat", size_out >> >>
  /\ cmds' = cmds \o << StatCommand(frame.remote_path), CatCommand(frame.remote_path) >>
  /\ \E code \in PullCodes, length \in CatLengths :
       IF code = 0 /\ length > 0
         THEN /\ disk' = WriteFile(disk, local_file, length)
              /\ success' = (StSize(disk', local_file) > 0)
         ELSE UNCHANGED << disk, success >>
  /\ pc' = "verify"
  /\ UNCHANGED << stats, extracted_files, temp_counter, staged, frame, result, outcome,
                  entryStats, faults, written >>
  /\ UNCHANGED heldVars

\* lines 419-424: open() or write() raised; the bare except swallows the fault
InlineWriteFault ==
  /\ pc = "inline"
  /\ ~success
  /\ \E size_out \in StatAnswers :
       /\ InlineApplies(size_out)
       /\ codes' = << << "stat", size_out >> >>
  /\ cmds' = cmds \o << StatCommand(frame.remote_path), CatCommand(frame.remote_path) >>
  /\ faults' = faults + 1
  /\ pc' = "verify"
  /\ UNCHANGED << stats, extracted_files, temp_counter, staged, disk, frame, success, result,
                  outcome, entryStats, written >>
  /\ UNCHANGED heldVars

\* lines 416-417, 423-424: KeyboardInterrupt is raised while the cat runs; it is no
\* Exception, so _adb (lines 206-209) lets it pass, and the bare except of the
\* inline read takes it: the call goes on to the validation
InlineCatInterrupted ==
  /\ pc = "inline"
  /\ ~success
  /\ \E size_out \in StatAnswers :
       /\ InlineApplies(size_out)
       /\ codes' = << << "stat", size_out >>, << "KeyboardInterrupt", "cat" >> >>
  /\ cmds' = cmds \o << StatCommand(frame.remote_path), CatCommand(frame.remote_path) >>
  /\ pc' = "verify"
  /\ UNCHANGED << stats, extracted_files, temp_counter, staged, disk, frame, success, result,
                  outcome, entryStats, faults, written >>
  /\ UNCHANGED heldVars

\* line 426: if success and local_file.exists()
Validated(d, lf) == success /\ Exists(d, lf)

\* faulty variant: the size ceiling is not applied
Oversized_Never(size) == FALSE

\* line 433: Config.MAX_FILE_SIZE_MB > 0 and size_mb > Config.MAX_FILE_SIZE_MB
Oversized(size) == MAX_FILE_SIZE_MB > 0 /\ size > MaxFileBytes

\* lines 437-441: the statistics of a success
CountSuccess(st, remote_path, category, size) ==
  LET added == _add_to_stats(st, category, size)
  IN  IF IsDatabase(remote_path) THEN Bump(added, "databases_acquired", 1) ELSE added

\* lines 427-443
ExtractAccept ==
  /\ pc = "verify"
  /\ Validated(disk, local_file)
  /\ StSize(disk, local_file) # 0
  /\ ~Oversized(StSize(disk, local_file))
  /\ stats' = CountSuccess(stats, frame.remote_path, frame.category, StSize(disk, local_file))
  /\ extracted_files' = extracted_files \cup {frame.remote_path}
  /\ written' = written \cup {<< session, frame.remote_path, local_file >>}
  /\ Return(TRUE, "extracted")
  /\ UNCHANGED << temp_counter, staged, disk, frame, success, cmds, entryStats, faults >>
  /\ codes' = << >>
  /\ UNCHANGED heldVars

\* lines 429-435: an empty or oversized file is deleted
ExtractReject ==
  /\ pc = "verify"
  /\ Validated(disk, local_file)
  /\ StSize(disk, local_file) = 0 \/ Oversized(StSize(disk, local_file))
  /\ disk' = Unlink(disk, local_file)
  /\ Return(FALSE, IF StSize(disk, local_file) = 0 THEN "empty" ELSE "oversized")
  /\ UNCHANGED << stats, extracted_files, temp_counter, staged, frame, success, cmds,
                  entryStats, faults, written >>
  /\ codes' = << >>
  /\ UNCHANGED heldVars

\* faulty variant: the failure is not counted
ExtractFailed_Uncounted ==
  /\ pc = "verify"
  /\ ~Validated(disk, local_file)
  /\ Return(FALSE, "failed")
  /\ UNCHANGED << stats, extracted_files, temp_counter, staged, disk, frame, success,
                  cmds, entryStats, faults, written >>
  /\ codes' = << >>
  /\ UNCHANGED heldVars

\* lines 444-446
ExtractFailed ==
  /\ pc = "verify"
  /\ ~Validated(disk, local_file)
  /\ stats' = Bump(stats, "failed_files", 1)
  /\ Return(FALSE, "failed")
  /\ UNCHANGED << extracted_files, temp_counter, staged, disk, frame, success, cmds,
                  entryStats, faults, written >>
  /\ codes' = << >>
  /\ UNCHANGED heldVars

\* the call site takes the result: if self._extract_file_production(...): counter += 1
CallerResume ==
  /\ pc = "ret"
  /\ stats' = IF result /\ frame.counter \in CounterFields
                THEN Bump(stats, frame.counter, 1) ELSE stats
  /\ called' = called \cup {frame.remote_path}
  /\ pc' = "idle"
  /\ frame' = NoFrame
  /\ cmds' = << >>
  /\ result' = FALSE
  /\ outcome' = "none"
  /\ success' = FALSE
  /\ faults' = 0
  /\ codes' = << >>
  /\ topStats' = AcquisitionStats
  /\ entryStats' = AcquisitionStats
  /\ UNCHANGED << timestamp, session, phase, has_root, work, extracted_files,
                  temp_counter, staged, disk, written, reported, memo, sanVars >>

(***************************************************************************)
(* Specification                                                           *)
(***************************************************************************)
Next ==
  \/ AcquireDeviceInfo
  \/ check_root_access
  \/ acquire_volatile_memory
  \/ AppProcessed
  \/ AcquireSystemLogs
  \/ generate_reports
  \/ Interrupted
  \/ NewSession
  \/ StartExtract
  \/ ExtractDuplicate
  \/ ExtractOnDisk
  \/ ExtractMkdirOk
  \/ ExtractMkdirRetry
  \/ ExtractMkdirFail
  \/ DirectSkip
  \/ DirectPull
  \/ DirectPullFault
  \/ StagedSkip
  \/ StagedCopy
  \/ StagedCopyFault
  \/ InlineSkip
  \/ InlineNoRead
  \/ InlineCat
  \/ InlineWriteFault
  \/ InlineCatInterrupted
  \/ ExtractAccept
  \/ ExtractReject
  \/ ExtractFailed
  \/ CallerResume

Spec == Init /\ [][Next]_vars

\* the steps run_acquisition takes by itself: every device command has a timeout
\* (_adb, lines 197-209) and every loop runs over a finite list, so the single
\* thread always reaches its next step
Continue ==
  \/ AcquireDeviceInfo
  \/ check_root_access
  \/ acquire_volatile_memory
  \/ AppProcessed
  \/ AcquireSystemLogs
  \/ generate_reports
  \/ StartExtract
  \/ ExtractDuplicate
  \/ ExtractOnDisk
  \/ ExtractMkdirOk
  \/ ExtractMkdirRetry
  \/ ExtractMkdirFail
  \/ DirectSkip
  \/ DirectPull
  \/ DirectPullFault
  \/ StagedSkip
  \/ StagedCopy
  \/ StagedCopyFault
  \/ InlineSkip
  \/ InlineNoRead
  \/ InlineCat
  \/ InlineWriteFault
  \/ InlineCatInterrupted
  \/ ExtractAccept
  \/ ExtractReject
  \/ ExtractFailed
  \/ CallerResume

\* main() lines 1543-1544: one process makes one ForensicAcquisition and calls
\* run_acquisition once; the steps of that one execution
RunNext ==
  \/ Continue
  \/ Interrupted

FairSpec == Init /\ [][RunNext]_vars /\ WF_vars(Continue)

(***************************************************************************)
(* _sanitize_path on its own: a pair of strings is drawn, and one step     *)
(* sanitizes both.  A string is up to MaxParts components, each led by a   *)
(* '/', and closed by one of a few tails.                                  *)
(***************************************************************************)
MaxParts == 3

Repeat(c, n) == [i \in 1..n |-> c]

Dotted(n) == <<".">> \o Repeat("a", n - 1)

Parts == { Repeat("a", 89), Repeat("a", 100), Repeat("a", 199), Dotted(1), Dotted(100) }

TailPairs ==
  { << << >>, << >> >>, << << >>, <<":">> >>, << <<":">>, <<"*">> >>, << <<"b">>, <<"c">> >> }

RECURSIVE Joined(_)
Joined(n) ==
  IF n = 0 THEN { << >> }
  ELSE { s \o <<"/">> \o part : s \in Joined(n - 1), part \in Parts }

\* the strings without a tail: absolute paths, and one component of 600 characters
Stems == (UNION { Joined(n) : n \in 0..MaxParts }) \cup { Repeat("a", 600) }

\* two strings over the same stem: equal up to the tail
InputPairs == { << stem \o t[1], stem \o t[2] >> : stem \in Stems, t \in TailPairs }

SanInit ==
  /\ EngineInit
  /\ inputs \in InputPairs
  /\ sanitized = << >>

Sanitize ==
  /\ inputs # << >>
  /\ sanitized = << >>
  /\ sanitized' = << _sanitize_path(inputs[1]), _sanitize_path(inputs[2]) >>
  /\ UNCHANGED << timestamp, stats, extracted_files, has_root, temp_counter, staged, disk, phase,
                  pc, frame, success, cmds, result, outcome, session, work, called,
                  topStats, entryStats, faults, codes, written,
                  reported, memo, inputs >>

SanNext == Sanitize

SanSpec == SanInit /\ [][SanNext]_vars

(***************************************************************************)
(* Properties of _extract_file_production                                  *)
(***************************************************************************)

\* C1: within one session a device path makes _extract_file_production return
\* true at most once: a step that returns true is taken only for a path that no
\* earlier call of the session returned true for.
C1_TrueAtMostOnce ==
  [][ (pc # "ret" /\ pc' = "ret" /\ result')
        => ~ \E w \in written : w[1] = session /\ w[2] = frame.remote_path ]_vars

\* a second call for a path that has already returned true in this session is at
\* its entry
C1_Witness ==
  /\ pc = "entry"
  /\ frame.remote_path \in extracted_files
  /\ \E w \in written : w[1] = session /\ w[2] = frame.remote_path

\* C2 as written: whatever the first call returned, a second call with the same
\* device path in the session returns false and leaves every field of the
\* statistics unchanged; if the path is in the extracted-path set the call issues
\* no device command and touches no local file.
C2_AsWritten ==
  /\ (pc = "ret" /\ frame.remote_path \in called)
       => (result = FALSE /\ stats = topStats)
  /\ (pc = "ret" /\ outcome = "duplicate") => cmds = << >>

\* C2, amended: a call with a device path that is in the extracted-path set (an
\* earlier call of the session returned true for it) returns false at once: it
\* changes no field of the statistics, issues no device command, touches no local
\* file and leaves the set as it is (the one other step is the interruption of
\* the process).
C2_ExtractedPathInert ==
  [][ (pc = "entry" /\ frame.remote_path \in extracted_files /\ ~Interrupted)
        => /\ pc' = "ret"
           /\ result' = FALSE
           /\ stats' = stats
           /\ stats = topStats
           /\ cmds = << >>
           /\ cmds' = << >>
           /\ disk' = disk
           /\ extracted_files' = extracted_files ]_vars

\* the second call has returned through the dedup check
C2_Witness ==
  /\ pc = "ret"
  /\ outcome = "duplicate"
  /\ frame.remote_path \in called
  /\ result = FALSE
  /\ stats = topStats

\* C3: when a non-empty file is at the computed local target at the entry of an
\* invocation, the invocation returns false, issues no device command, changes no
\* field of the statistics and does not add the path to the extracted-path set
\* (the one other step is the interruption of the process).
C3_ResumeSkips ==
  [][ (pc = "entry" /\ local_file \in DOMAIN disk /\ disk[local_file] > 0 /\ ~Interrupted)
        => /\ pc' = "ret"
           /\ result' = FALSE
           /\ cmds = << >>
           /\ cmds' = << >>
           /\ stats' = stats
           /\ extracted_files' = extracted_files
           /\ disk' = disk ]_vars

\* a call has returned false because its target was on the disk, for a path that
\* is not in the extracted-path set
C3_Witness ==
  /\ pc = "ret"
  /\ outcome = "on_disk"
  /\ result = FALSE
  /\ cmds = << >>
  /\ frame.remote_path \notin extracted_files
  /\ ExistsNonEmpty(disk, local_file)

\* C4 as written: distinct device paths extracted into one base directory have
\* distinct local targets, with flatten true and with flatten false, so the local
\* target of a running call is never a file that a call for a different device
\* path wrote in this session.
C4_AsWritten ==
  pc # "idle"
    => \A w \in written :
         (w[1] = session /\ w[3] = local_file) => w[2] = frame.remote_path

\* C5: the retrieval strategies run in the order direct pull, staged copy, inline
\* read; each runs at most once in a top-level call; a later strategy runs only
\* after every earlier strategy that applies; and once a strategy has succeeded
\* no command of a later strategy is issued.
C5_StrategyOrder ==
  /\ [](LET strategy(c) == IF c.op = "pull" /\ c.src = frame.remote_path THEN 1
                           ELSE IF c.op \in {"stat", "cat"} THEN 3 ELSE 2
            ran(n) == \E i \in 1..Len(cmds) : strategy(cmds[i]) = n
            times(op) == Cardinality({i \in 1..Len(cmds) : cmds[i].op = op})
        IN  pc # "idle"
              => /\ \A i, j \in 1..Len(cmds) :
                      i < j => strategy(cmds[i]) <= strategy(cmds[j])
                 /\ times("pull") <= 2
                 /\ times("cp") <= 1
                 /\ times("stat") <= 1
                 /\ times("cat") <= 1
                 /\ ran(1) => ~IsPrivate(frame.remote_path)
                 /\ ran(2) => has_root
                 /\ (ran(2) \/ ran(3)) /\ ~IsPrivate(frame.remote_path) => ran(1)
                 /\ ran(3) /\ has_root => ran(2))
  /\ [][ (success /\ pc \in {"staged", "inline"}) => (cmds' = cmds \/ Interrupted) ]_vars

\* the direct pull failed, the staged copy succeeded and the inline read was
\* passed over
C5_Witness ==
  /\ pc = "verify"
  /\ success
  /\ has_root
  /\ Len(cmds) = 5
  /\ cmds[1] = Pull(frame.remote_path)
  /\ cmds[2].op = "cp"

\* C6: when a strategy has produced a local file larger than 500 MiB the file is
\* deleted and the invocation returns false; no field of the statistics (the
\* error counters and the totals among them) has changed since the invocation's
\* entry, and the path is not added to the extracted-path set.
C6_OversizedRejected ==
  /\ [](pc \in {"direct", "staged", "inline", "verify"}
          => stats = entryStats /\ frame.remote_path \notin extracted_files)
  /\ [][ (/\ pc = "verify"
          /\ success
          /\ local_file \in DOMAIN disk
          /\ disk[local_file] > 500 * 1024 * 1024
          /\ ~Interrupted)
           => /\ pc' = "ret"
              /\ result' = FALSE
              /\ local_file \notin DOMAIN disk'
              /\ stats' = stats
              /\ extracted_files' = extracted_files ]_vars

\* an oversized file has been rejected
C6_Witness ==
  /\ pc = "ret"
  /\ outcome = "oversized"
  /\ result = FALSE
  /\ ~Exists(disk, local_file)
  /\ stats = entryStats
  /\ frame.remote_path \notin extracted_files

\* C7 as written: a top-level call inside which an unexpected fault was raised
\* returns false and has incremented extraction_errors by exactly 1.
C7_AsWritten ==
  (pc = "ret" /\ faults > 0)
    => /\ result = FALSE
       /\ stats.extraction_errors = topStats.extraction_errors + 1

\* C8: the invocation that returns true has changed the session exactly so:
\* total_files + 1; the byte total of the category and the grand total grown by
\* the size of the local file; the path added to the extracted-path set;
\* databases_acquired + 1 exactly when the path ends in .db, .sqlite, .db-wal or
\* .db-shm, whatever the category; every other field, failed_files, path_errors
\* and extraction_errors among them, as at the entry of the invocation.
C8_SuccessAccounting ==
  [][ LET size == disk[local_file]
          isDb == \E x \in { <<".", "d", "b">>, <<".", "s", "q", "l", "i", "t", "e">>,
                             <<".", "d", "b", "-", "w", "a", "l">>,
                             <<".", "d", "b", "-", "s", "h", "m">> } :
                    /\ Len(frame.remote_path) >= Len(x)
                    /\ SubSeq(frame.remote_path, Len(frame.remote_path) - Len(x) + 1,
                              Len(frame.remote_path)) = x
          grown(f) == IF f = "total_files" THEN 1
                      ELSE IF f = "total_mb" THEN size
                      ELSE IF f = CategoryField(frame.category) THEN size
                      ELSE IF f = "databases_acquired" /\ isDb THEN 1
                      ELSE 0
      IN  (pc # "ret" /\ pc' = "ret" /\ result')
            => /\ stats = entryStats
               /\ local_file \in DOMAIN disk
               /\ size > 0
               /\ \A f \in StatFields : stats'[f] = stats[f] + grown(f)
               /\ extracted_files' = extracted_files \cup {frame.remote_path}
               /\ disk' = disk ]_vars

\* a database file has been extracted in the media category
C8_Witness ==
  /\ pc = "ret"
  /\ result
  /\ frame.category = "media"
  /\ IsDatabase(frame.remote_path)
  /\ stats.databases_acquired = entryStats.databases_acquired + 1
  /\ stats.media_mb = entryStats.media_mb + StSize(disk, local_file)

\* C9: no operation of a session decreases a field of the statistics.
C9_StatsMonotone ==
  [][ session' = session => \A f \in StatFields : stats'[f] >= stats[f] ]_vars

\* a session in which the acquisition phases, a failed call and a successful call
\* have all counted
C9_Witness ==
  /\ stats.failed_files + stats.path_errors + stats.extraction_errors > 0
  /\ stats.total_files > 0
  /\ stats.total_mb > 0

C11_ReportsEventually ==
  (phase # "done")
    ~> (phase = "done" /\ reported # << >> /\ reported[1].stats = stats)

\* the reports were written after an interruption, in a session in which no extract
\* call had returned true and one had failed
C11_Witness ==
  /\ phase = "done"
  /\ reported # << >>
  /\ reported[1].after = "interrupt"
  /\ reported[1].stats = stats
  /\ stats.failed_files > 0
  /\ extracted_files = {}

(***************************************************************************)
(* Properties of the outcomes and the strategies                           *)
(***************************************************************************)
\* C17, as the claim states it: the statistics tell the outcomes that return
\* false apart.  A duplicate skip leaves the statistics as they were, a path
\* error has counted path_errors, and an oversized rejection has left a trace of
\* its own, so not the trace of a duplicate skip.
C17_AsWritten ==
  pc = "ret" =>
    /\ outcome = "duplicate" => stats = topStats
    /\ outcome = "path_error" => stats.path_errors > topStats.path_errors
    /\ outcome = "oversized" => stats # topStats

\* C18: no pull has a path of the private application storage as its source,
\* and in a session without root access no command runs under su and no cp,
\* chmod or rm is issued.
C18_StrategyGates ==
  \A i \in 1..Len(cmds) :
    /\ cmds[i].op = "pull" => ~IsPrivate(cmds[i].src)
    /\ ~has_root => (~cmds[i].su /\ cmds[i].op \notin {"cp", "chmod", "rm"})

\* a call for a private path in a session without root access has returned, and
\* the inline read was the one strategy it tried
C18_Witness ==
  /\ pc = "ret"
  /\ IsPrivate(frame.remote_path)
  /\ ~has_root
  /\ cmds # << >>
  /\ cmds[1].op = "stat"

\* the pull of the step just taken failed: its status is not 0, or it left no
\* local file of non-zero size
AttemptFailed(cs, d, lf) == cs[1][2] # 0 \/ ~ExistsNonEmpty(d, lf)

\* C19: a strategy whose command timed out or returned a non-zero status, or
\* returned 0 and left no local file of non-zero size, has failed and no more:
\* success stays false, the call goes on to the next strategy in the same phase
\* of the same session, and a call without success tries the next strategy that
\* applies (the staged copy with root access, then the inline read).
C19_FailedAttemptProceeds ==
  [][ /\ (/\ pc \in {"direct", "staged"}
          /\ codes' # << >>
          /\ faults' = faults
          /\ AttemptFailed(codes', disk', local_file))
         => /\ ~success'
            /\ pc' = (IF pc = "direct" THEN "staged" ELSE "inline")
            /\ phase' = phase
            /\ session' = session
            /\ stats' = stats
      /\ (pc = "staged" /\ ~success /\ ~Interrupted)
         => IF has_root
              THEN /\ Len(cmds') = Len(cmds) + 4
                   /\ cmds'[Len(cmds) + 1].op = "cp"
              ELSE pc' = "inline" /\ cmds' = cmds
      /\ (pc = "inline" /\ ~success /\ ~Interrupted)
         => /\ Len(cmds') > Len(cmds)
            /\ cmds'[Len(cmds) + 1].op = "stat"
            /\ pc' = "verify"
      /\ (pc = "inline" /\ ~success /\ ~Interrupted /\ ~ExistsNonEmpty(disk', local_file))
         => ~success' ]_vars

\* the direct pull has timed out, and the call is at the staged copy
C19_Witness ==
  /\ pc = "staged"
  /\ codes = << << "pull", -1 >> >>
  /\ ~success
  /\ has_root

\* C20: the commands of a staged copy are cp, chmod, the pull of the staged
\* copy and its rm, in this order and on the same staging path; the rm is issued
\* whatever the pull answered; and the outcome of the attempt is the outcome of
\* the pull, whatever the rm answered.
C20_StagedCopyOrder ==
  /\ [](\A i \in 1..Len(cmds) :
          /\ cmds[i].op = "cp"
               => /\ i + 3 <= Len(cmds)
                  /\ cmds[i + 1].op = "chmod"
                  /\ cmds[i + 2] = Pull(cmds[i + 1].src)
                  /\ cmds[i + 3].op = "rm"
                  /\ cmds[i + 3].src = cmds[i + 1].src
          /\ cmds[i].op = "chmod" => (i > 1 /\ cmds[i - 1].op = "cp")
          /\ cmds[i].op = "rm" => (i > 3 /\ cmds[i - 3].op = "cp"))
  /\ [][ (pc = "staged" /\ cmds' # cmds /\ ~Interrupted)
           => /\ Len(codes') = 2
              /\ codes'[1][1] = "pull"
              /\ codes'[2][1] = "rm"
              /\ cmds'[Len(cmds')].op = "rm"
              /\ faults' = faults
                   => success' = (codes'[1][2] = 0 /\ ExistsNonEmpty(disk', local_file)) ]_vars

\* the pull of the staged copy has succeeded and the delete has failed
C20_Witness ==
  /\ pc = "inline"
  /\ codes = << << "pull", 0 >>, << "rm", 1 >> >>
  /\ success
  /\ Len(cmds) >= 4
  /\ cmds[Len(cmds)].op = "rm"

(***************************************************************************)
(* Properties of _sanitize_path                                            *)
(***************************************************************************)
Returned == sanitized # << >>

Components(s) == SelectSeq(SplitSlash(s), LAMBDA p : p # << >>)

IsHex(c) == \E i \in 1..Len(HexDigits) : HexDigits[i] = c

\* s ends with '_' and 8 hexadecimal digits
HashSuffixed(s) ==
  /\ Len(s) >= 9
  /\ s[Len(s) - 8] = "_"
  /\ \A k \in (Len(s) - 7)..Len(s) : IsHex(s[k])

\* C12: whatever the input, the sanitized path is at most MAX_PATH_LENGTH
\* characters long.
C12_LengthBound ==
  Returned => \A i \in 1..2 : Len(sanitized[i]) <= MAX_PATH_LENGTH

C12_Witness ==
  /\ Returned
  /\ Len(inputs[1]) > 3 * MAX_PATH_LENGTH
  /\ Len(JoinedParts(inputs[1])) > MAX_PATH_LENGTH
  /\ Len(sanitized[1]) < MAX_PATH_LENGTH

\* C13, as the claim states it: no component of a sanitized path is longer than
\* 100 characters, also when the total-length rule has replaced the tail.
C13_AsWritten ==
  Returned =>
    \A i \in 1..2 :
      LET comps == Components(sanitized[i])
      IN  \A k \in 1..Len(comps) : Len(comps[k]) <= MaxComponentLength

\* C14: a sanitized path holds none of the characters : * ? " < > | \n \r \t and
\* none of its components begins with a dot.
C14_NoIllegalCharacter ==
  Returned =>
    \A i \in 1..2 :
      /\ \A k \in 1..Len(sanitized[i]) : sanitized[i][k] \notin invalid_chars
      /\ LET comps == Components(sanitized[i])
         IN  \A k \in 1..Len(comps) : comps[k][1] # "."

C14_Witness ==
  /\ Returned
  /\ \E k \in 1..Len(inputs[1]) : inputs[1][k] \in invalid_chars
  /\ \E k \in 2..Len(inputs[1]) : inputs[1][k - 1] = "/" /\ inputs[1][k] = "."
  /\ Len(sanitized[1]) > 0

\* C15, as the claim states it: two distinct inputs that share their first
\* MAX_PATH_LENGTH - 10 characters and differ afterward have different outputs.
C15_AsWritten ==
  ( /\ Returned
    /\ inputs[1] # inputs[2]
    /\ Len(inputs[1]) >= MAX_PATH_LENGTH - 10
    /\ Len(inputs[2]) >= MAX_PATH_LENGTH - 10
    /\ Prefix(inputs[1], MAX_PATH_LENGTH - 10) = Prefix(inputs[2], MAX_PATH_LENGTH - 10) )
    => sanitized[1] # sanitized[2]

\* C16, as the claim states it: a 600-character path sanitizes to exactly 200
\* characters, the last 9 of them '_' and 8 hexadecimal digits.
C16_AsWritten ==
  (Returned /\ Len(inputs[1]) = 600)
    => (Len(sanitized[1]) = MAX_PATH_LENGTH /\ HashSuffixed(sanitized[1]))

\* C16, amended: a 600-character path whose sanitized components, joined by '/',
\* are longer than MAX_PATH_LENGTH characters sanitizes to exactly
\* MAX_PATH_LENGTH - 1 characters: the first MAX_PATH_LENGTH - 10 of the joined
\* string, then '_' and 8 hexadecimal digits.  Any other 600-character path
\* sanitizes to the joined string itself.
C16_HashedLength ==
  (Returned /\ Len(inputs[1]) = 600)
    => LET joined == JoinedParts(inputs[1])
       IN  IF Len(joined) > MAX_PATH_LENGTH
             THEN /\ Len(sanitized[1]) = MAX_PATH_LENGTH - 1
                  /\ HashSuffixed(sanitized[1])
                  /\ Prefix(sanitized[1], MAX_PATH_LENGTH - 10)
                       = Prefix(joined, MAX_PATH_LENGTH - 10)
             ELSE sanitized[1] = joined

C16_Witness ==
  /\ Returned
  /\ Len(inputs[1]) = 600
  /\ Len(sanitized[1]) = MAX_PATH_LENGTH - 1
  /\ HashSuffixed(sanitized[1])

(***************************************************************************)
(* Properties of the staging counter and of the outcomes of a call         *)
(***************************************************************************)
\* C21: within a session the staging counter grows by exactly 1 at every staged
\* copy and changes at no other step, and no two staged copies of the session
\* have the same staging path, also when the files have the same basename.
C21_StagingNamesUnique ==
  /\ [](/\ Len(staged) = temp_counter
        /\ \A i, j \in 1..Len(staged) : i # j => staged[i] # staged[j])
  /\ [][ session' = session
           => /\ temp_counter' >= temp_counter
              /\ (pc = "staged" /\ cmds' # cmds /\ ~Interrupted)
                   => temp_counter' = temp_counter + 1
              /\ cmds' = cmds => temp_counter' = temp_counter ]_vars

\* two staged copies of one session, of two files with the same basename
C21_Witness ==
  /\ Len(staged) = 2
  /\ temp_counter = 2
  /\ called = {PathA}
  /\ frame.remote_path = PathXA
  /\ Basename(PathA) = Basename(PathXA)
  /\ staged[1] # staged[2]

\* C22: the inline strategy issues the cat of the device path exactly when the
\* size query answered an integer above 0 and below 5 MiB; after an answer of 0,
\* of 5 MiB or more, or one that is no number, it issues no cat, writes nothing
\* and leaves success false.
C22_InlineReadGate ==
  [][ (pc = "inline" /\ cmds' # cmds /\ ~Interrupted)
       => LET size_out == codes'[1][2]
              in_range == /\ size_out # << >>
                          /\ size_out[1] > 0
                          /\ size_out[1] < 5 * 1024 * 1024
              read == \E i \in (Len(cmds) + 1)..Len(cmds') : cmds'[i].op = "cat"
          IN  /\ codes'[1][1] = "stat"
              /\ cmds'[Len(cmds) + 1].op = "stat"
              /\ read <=> in_range
              /\ ~read => (~success' /\ disk' = disk) ]_vars

\* the size query answered exactly 5 MiB, and nothing was read
C22_Witness ==
  /\ pc = "verify"
  /\ codes = << << "stat", << 5 * 1024 * 1024 >> >> >>
  /\ cmds[Len(cmds)].op = "stat"
  /\ ~success

\* C23: a call whose strategies have all failed returns false with failed_files
\* grown by exactly 1: no strategy has changed a byte total, total_files or the
\* extracted-path set, and the returning step changes nothing else.
C23_ExhaustedCountsOneFailure ==
  /\ []((pc \in {"direct", "staged", "inline", "verify"})
          => \A f \in ByteFields \cup {"total_files", "failed_files"} :
               stats[f] = topStats[f])
  /\ [][ /\ (pc = "verify" /\ ~success /\ ~Interrupted)
             => /\ pc' = "ret"
                /\ result' = FALSE
                /\ stats' = [stats EXCEPT !["failed_files"] = @ + 1]
                /\ extracted_files' = extracted_files
         /\ (pc \in {"direct", "staged", "inline"})
             => extracted_files' = extracted_files ]_vars

\* all three strategies were tried, all failed, and the call has returned
C23_Witness ==
  /\ pc = "ret"
  /\ outcome = "failed"
  /\ ~result
  /\ has_root
  /\ \E i, j, k \in 1..Len(cmds) :
       /\ i < j
       /\ j < k
       /\ cmds[i] = Pull(frame.remote_path)
       /\ cmds[j].op = "cp"
       /\ cmds[k].op = "stat"
  /\ stats.failed_files = topStats.failed_files + 1
  /\ stats.total_files = topStats.total_files
  /\ frame.remote_path \notin extracted_files

\* the step in which creating the parent directories failed
MkdirFailed == pc = "entry" /\ stats'.path_errors = stats.path_errors + 1

\* C24: a failed mkdir in an invocation with flatten false counts one path
\* error and starts one invocation with flatten true for the same file; a failed
\* mkdir in an invocation with flatten true counts one path error and returns
\* false.  The retried invocation has flatten true, so it starts no retry of its
\* own, and every call that has been entered comes to its return (or the run is
\* interrupted).
C24_RetryOnce ==
  /\ [](frame.retried => frame.flatten)
  /\ [](pc # "idle" => stats.path_errors <= topStats.path_errors + 2)
  /\ [][ /\ (MkdirFailed /\ ~frame.flatten)
             => /\ pc' = "entry"
                /\ ~frame.retried
                /\ frame' = [frame EXCEPT !.flatten = TRUE, !.retried = TRUE,
                                          !.local_file = frame'.local_file]
                /\ stats' = [stats EXCEPT !["path_errors"] = @ + 1]
         /\ (MkdirFailed /\ frame.flatten)
             => /\ pc' = "ret"
                /\ result' = FALSE
                /\ frame' = frame
                /\ stats' = [stats EXCEPT !["path_errors"] = @ + 1]
         /\ (pc = "entry" /\ frame.retried /\ ~Interrupted) => pc' # "entry" ]_vars
  /\ (pc = "entry") ~> (pc = "ret" \/ phase = "done")

\* the retry has failed as well: two path errors, one retry, a false return
C24_Witness ==
  /\ pc = "ret"
  /\ outcome = "path_error"
  /\ frame.retried
  /\ frame.flatten
  /\ ~result
  /\ stats.path_errors = topStats.path_errors + 2

Suffix8(s) == SubSeq(s, Len(s) - 7, Len(s))

\* C26: when the joined sanitized string is longer than MAX_PATH_LENGTH, the 8
\* hexadecimal digits at the end of the output are the digest of the whole joined
\* string; two joined strings longer than MAX_PATH_LENGTH that are equal in the
\* first MAX_PATH_LENGTH - 10 characters and differ later give different
\* outputs whenever their digests differ.
C26_SuffixOfWholeString ==
  Returned
    => LET joined1 == JoinedParts(inputs[1])
           joined2 == JoinedParts(inputs[2])
       IN  /\ \A i \in 1..2 :
                Len(JoinedParts(inputs[i])) > MAX_PATH_LENGTH
                  => Suffix8(sanitized[i]) = Md5Hex8(JoinedParts(inputs[i]))
           /\ ( /\ Len(joined1) > MAX_PATH_LENGTH
                /\ Len(joined2) > MAX_PATH_LENGTH
                /\ Prefix(joined1, MAX_PATH_LENGTH - 10) = Prefix(joined2, MAX_PATH_LENGTH - 10)
                /\ Md5Hex8(joined1) # Md5Hex8(joined2) )
               => sanitized[1] # sanitized[2]

\* two joined strings that differ only in their last character, the 292nd
C26_Witness ==
  /\ Returned
  /\ Len(JoinedParts(inputs[1])) = 292
  /\ Len(JoinedParts(inputs[2])) = 292
  /\ JoinedParts(inputs[1]) # JoinedParts(inputs[2])
  /\ Prefix(JoinedParts(inputs[1]), 291) = Prefix(JoinedParts(inputs[2]), 291)
  /\ Prefix(sanitized[1], MAX_PATH_LENGTH - 10) = Prefix(sanitized[2], MAX_PATH_LENGTH - 10)
  /\ sanitized[1] # sanitized[2]

(***************************************************************************)
(* Properties of the local files and of the counters over a session        *)
(***************************************************************************)
\* C27, as the claim states it: a call that has returned false because every
\* strategy failed has left no file of non-zero size at its target.
C27_AsWritten ==
  (pc = "ret" /\ outcome = "failed") => ~ExistsNonEmpty(disk, local_file)

\* the six per-category byte totals
CategoryTotals == ByteFields \ {"total_mb"}

RECURSIVE SumOver(_, _)
SumOver(st, fields) ==
  IF fields = {} THEN 0
  ELSE LET f == CHOOSE x \in fields : TRUE
       IN  st[f] + SumOver(st, fields \ {f})

\* C28: in every state the grand total is the sum of the six per-category
\* totals, and neither the number of databases nor the number of extracted
\* device paths exceeds the number of files counted.
C28_TotalsAgree ==
  /\ stats.total_mb = SumOver(stats, CategoryTotals)
  /\ stats.databases_acquired <= stats.total_files
  /\ Cardinality(extracted_files) <= stats.total_files

\* two categories have bytes, a database is counted, and the phases have counted
\* files that are no extracted paths
C28_Witness ==
  /\ stats.volatile_mb > 0
  /\ stats.media_mb > 0
  /\ stats.total_mb = stats.volatile_mb + stats.media_mb
  /\ stats.databases_acquired > 0
  /\ Cardinality(extracted_files) > 0
  /\ Cardinality(extracted_files) < stats.total_files

\* the counters of the outcome of a call
OutcomeCounters == {"total_files", "failed_files", "path_errors", "extraction_errors"}

\* by how much the outcome counters of st exceed those of base, in sum
OutcomeGrowth(st, base) ==
  (st.total_files - base.total_files) + (st.failed_files - base.failed_files)
    + (st.path_errors - base.path_errors) + (st.extraction_errors - base.extraction_errors)

\* C29, as the claim states it: over a top-level call, the flatten retry included,
\* the four outcome counters grow by at most 1 in sum.
C29_AsWritten == pc # "idle" => OutcomeGrowth(stats, topStats) <= 1

\* C29, amended: an invocation grows the four outcome counters by at most 1 in
\* sum; a call that has not gone through the flatten retry is one invocation, and
\* a call that has gone through it has added exactly 1 to path_errors, and to no
\* other outcome counter, before the retried invocation.
C29_OneCounterPerInvocation ==
  pc # "idle"
    => /\ \A f \in OutcomeCounters : stats[f] >= entryStats[f]
       /\ OutcomeGrowth(stats, entryStats) <= 1
       /\ ~frame.retried => \A f \in OutcomeCounters : entryStats[f] = topStats[f]
       /\ frame.retried
            => \A f \in OutcomeCounters :
                 entryStats[f] = topStats[f] + (IF f = "path_errors" THEN 1 ELSE 0)

\* a call that counted a path error and then, retried, a file
C29_Witness ==
  /\ pc = "ret"
  /\ frame.retried
  /\ result
  /\ stats.path_errors = topStats.path_errors + 1
  /\ stats.total_files = topStats.total_files + 1
  /\ OutcomeGrowth(stats, topStats) = 2

(***************************************************************************)
(* Interruption of a call                                                  *)
(***************************************************************************)
\* a KeyboardInterrupt was raised in the step just taken and has not reached
\* run_acquisition (the step Interrupted is the one in which it does)
InterruptDelivered == \E i \in 1..Len(codes) : codes[i][1] = "KeyboardInterrupt"

\* C30, as the claim states it: a KeyboardInterrupt raised at any point of a call,
\* the inline read included, reaches run_acquisition: the sweep is over, no call
\* is running, and the reports have been generated.
C30_AsWritten ==
  InterruptDelivered => (phase = "done" /\ pc = "idle" /\ reported # << >>)
====
